---- MODULE Spec2Model ----
(***************************************************************************)
(* The photo-upload store of the dashboard (photo-upload/store.tsx): the   *)
(* zustand state record, the operations it exposes, the two callbacks it   *)
(* hands to the upload transport (handleUploadProgress,                    *)
(* handleProcessingEvent) and the continuation of beginUpload that runs    *)
(* when the transport call settles.                                        *)
(*                                                                         *)
(* The transport (onUpload) is an external collaborator.  Each call of it  *)
(* is an element of `attempts`; while a call has not settled it may        *)
(* deliver progress snapshots and server events in any order, and it       *)
(* settles by resolving, by rejecting with an AbortError (only once its    *)
(* signal was aborted) or by rejecting with another error.                 *)
(*                                                                         *)
(* Encodings: an optional value is a sequence of length 0 or 1; the error  *)
(* messages are strings with NULL for null; file names are <<base, ext>>.  *)
(* Payload fields that the store only copies and never reads (summary,     *)
(* dryRun, totals as stored) are left out.                                 *)
(***************************************************************************)
EXTENDS Integers, Sequences, FiniteSets, TLC

\* ---------------------------------------------------------------- bounds
\* transport calls (beginUpload invocations) per session
MaxAttempts == 2
\* largest stage counter a server event reports
MaxCount == 2
\* log events delivered in the lifecycle specification
MaxLogSeq == 1
\* log events delivered beyond the capacity in the log specification
LogOverrun == 2
\* transport calls in the entries specification
MaxEntryAttempts == 1

\* ------------------------------------------------------- program constants
MAX_PROCESSING_LOGS == 200

NULL == "null"
PROCESSING_TERMINATED == "processing was terminated"
UPLOAD_FAILED_FALLBACK == "upload failed, try again later"

None == <<>>
Some(x) == <<x>>

\* ------------------------------------------------------------ input sets
IMG_A == [name |-> <<"a", "jpg">>, size |-> 1]
IMG_B == [name |-> <<"b", "jpg">>, size |-> 2]
MOV_A == [name |-> <<"a", "mov">>, size |-> 2]
MOV_C == [name |-> <<"c", "mov">>, size |-> 1]

InitialFileLists == {<<IMG_A, IMG_B>>, <<IMG_A, MOV_A>>, <<MOV_C, IMG_B>>}

Phases == {"review", "uploading", "processing", "completed", "error"}
Statuses == {"pending", "uploading", "processing", "done", "error"}
Stages == {"metadata", "thumbnail"}
\* a reported counter: a number (possibly negative), NaN, or a string
Num(n) == [kind |-> "number", value |-> n]
NOT_A_NUMBER == [kind |-> "NaN", value |-> 0]
BAD_STRING == [kind |-> "string", value |-> 0]
Counts == 0..MaxCount
Reported == {Num(n) : n \in -1..MaxCount} \cup {NOT_A_NUMBER, BAD_STRING}
StageStatuses == {"running", "complete"}
TagLists == {<<>>, <<"travel">>}
\* what one file of a progress snapshot carries
SnapshotValues == {[progress |-> 0, uploadedBytes |-> 1], [progress |-> 1, uploadedBytes |-> 2]}
EntryIndexes == 0..2
\* the failure a transport rejection carries: its name and its message
ABORT_ERROR == [name |-> "AbortError", message |-> "aborted"]
NETWORK_ERROR == [name |-> "Error", message |-> "network down"]
EMPTY_ERROR == [name |-> "Error", message |-> ""]
SERVER_ERROR == "server failed"

\* ------------------------------------------------------------ utils.ts
RECURSIVE calculateUploadedBytes(_)
calculateUploadedBytes(entries) ==
    IF entries = <<>> THEN 0
    ELSE Head(entries).uploadedBytes + calculateUploadedBytes(Tail(entries))

RECURSIVE calculateTotalSize(_)
calculateTotalSize(fs) ==
    IF fs = <<>> THEN 0 ELSE Head(fs).size + calculateTotalSize(Tail(fs))

createFileEntries(fs) ==
    [i \in 1..Len(fs) |->
        [index |-> i - 1, name |-> fs[i].name, size |-> fs[i].size,
         status |-> "pending", progress |-> 0, uploadedBytes |-> 0]]

IsMov(f) == f.name[2] = "mov"
HasImage(fs, f) == \E j \in 1..Len(fs) : ~IsMov(fs[j]) /\ fs[j].name[1] = f.name[1]

collectUnmatchedMovFiles(fs) ==
    LET unmatched == SelectSeq(fs, LAMBDA f : IsMov(f) /\ ~HasImage(fs, f))
    IN  [unmatched |-> unmatched, hasMov |-> unmatched # <<>>]

IsValidCount(v) == v.kind = "number" /\ v.value >= 0

normalizeStageCount(reported, fallback) ==
    IF IsValidCount(reported)
    THEN (IF reported.value > fallback THEN reported.value ELSE fallback)
    ELSE fallback

createStageStateFromTotals(totals) ==
    [s \in DOMAIN totals |->
        [status |-> IF totals[s] = 0 THEN "completed" ELSE "running",
         processed |-> 0, total |-> totals[s]]]

getErrorMessage(error, fallback) == IF error.message # "" THEN error.message ELSE fallback

Min(a, b) == IF a < b THEN a ELSE b

\* Array.prototype.slice(-n): the last n elements
SliceLast(s, n) == IF Len(s) <= n THEN s ELSE SubSeq(s, Len(s) - n + 1, Len(s))

\* ------------------------------------------------------------------ state
VARIABLES
    files, totalSize, uploadedBytes, selectedTags, unmatchedMovFiles, hasMovFile,
    phase, uploadEntries, uploadError, processingError, processingState,
    processingLogs,
    uploadAbortController,  \* 0 for null, else the attempt whose controller it is
    processingLogSequence,  \* the module-level id counter of log entries
    attempts,               \* the transport calls: "inflight", "aborted" (signal
                            \* aborted, call not yet settled) or "settled"
    onCloseCalls,           \* how often the external onClose ran
    unmounted,              \* the provider's effect cleanup ran
    lastOp,                 \* history: the operation of the last step
    logHistory              \* history: ids of the log events since the last clearing

storeVars == <<files, totalSize, uploadedBytes, selectedTags, unmatchedMovFiles,
               hasMovFile, phase, uploadEntries, uploadError, processingError,
               processingState, processingLogs>>

vars == <<files, totalSize, uploadedBytes, selectedTags, unmatchedMovFiles,
          hasMovFile, phase, uploadEntries, uploadError, processingError,
          processingState, processingLogs, uploadAbortController,
          processingLogSequence, attempts, onCloseCalls, unmounted, lastOp,
          logHistory>>

\* the operation of a step: its name and, for a stage or action event, the stage
\* it names and whether the reported processed and total counters were well-formed,
\* for a start event the totals of its payload, for removeEntry the index given
OpOn(name, stage, okProcessed, okTotal) ==
    [op |-> name, stage |-> stage, okProcessed |-> okProcessed, okTotal |-> okTotal,
     totals |-> <<>>, index |-> -1]
Op(name) == OpOn(name, "", TRUE, TRUE)
\* a start event, with the totals of its payload
OpStart(totals) == [Op("start") EXCEPT !.totals = totals]
\* a removeEntry call, with the index of the entry it was given
OpRemove(index) == [Op("removeEntry") EXCEPT !.index = index]

InitWith(fs) ==
    /\ files = fs
    /\ totalSize = calculateTotalSize(fs)
    /\ uploadedBytes = 0
    /\ selectedTags = <<>>
    /\ unmatchedMovFiles = collectUnmatchedMovFiles(fs).unmatched
    /\ hasMovFile = collectUnmatchedMovFiles(fs).hasMov
    /\ phase = "review"
    /\ uploadEntries = createFileEntries(fs)
    /\ uploadError = NULL
    /\ processingError = NULL
    /\ processingState = None
    /\ processingLogs = <<>>
    /\ uploadAbortController = 0
    /\ processingLogSequence = 0
    /\ attempts = <<>>
    /\ onCloseCalls = 0
    /\ unmounted = FALSE
    /\ lastOp = Op("create")
    /\ logHistory = <<>>

\* the user can act on the store while the modal is open and mounted
Open == onCloseCalls = 0 /\ ~unmounted
\* a transport call that has not settled can still call back
InFlight(a) == a \in 1..Len(attempts) /\ attempts[a] # "settled"
Delivering == \E a \in 1..Len(attempts) : InFlight(a)

\* AbortController.abort() on the held controller, then the reference is dropped
AbortHeld ==
    /\ attempts' = IF uploadAbortController = 0 THEN attempts
                   ELSE [attempts EXCEPT ![uploadAbortController] =
                                            IF @ = "settled" THEN @ ELSE "aborted"]
    /\ uploadAbortController' = 0

MapStatus(entries, from, to) ==
    [i \in 1..Len(entries) |->
        IF entries[i].status = from THEN [entries[i] EXCEPT !.status = to] ELSE entries[i]]

\* mutant: the entries replaced, the aggregate left as it was
updateEntriesStale(nextEntries) ==
    /\ uploadEntries' = nextEntries
    /\ uploadedBytes' = uploadedBytes

\* updateEntries(updater): the entries and the aggregate recomputed from them
updateEntries(nextEntries) ==
    /\ uploadEntries' = nextEntries
    /\ uploadedBytes' = calculateUploadedBytes(nextEntries)

RemoveAt(s, i) ==
    IF i \in 1..Len(s)
    THEN [j \in 1..(Len(s) - 1) |-> IF j < i THEN s[j] ELSE s[j + 1]]
    ELSE s

sessionVars == <<uploadAbortController, attempts, onCloseCalls, unmounted>>

\* ------------------------------------------------- handleProcessingEvent
\* mutant: every entry is promoted to processing, whatever its status
StartEventPromotingAll(totals) ==
    /\ Delivering
    /\ updateEntries([i \in 1..Len(uploadEntries) |->
                        [uploadEntries[i] EXCEPT !.status = "processing"]])
    /\ phase' = "processing"
    /\ processingError' = NULL
    /\ processingState' = Some([stages |-> createStageStateFromTotals(totals),
                                completed |-> FALSE, error |-> NULL, latestLog |-> None])
    /\ processingLogs' = <<>>
    /\ logHistory' = <<>>
    /\ lastOp' = OpStart(totals)
    /\ UNCHANGED <<files, totalSize, selectedTags, unmatchedMovFiles, hasMovFile,
                   uploadError, processingLogSequence>>
    /\ UNCHANGED sessionVars

StartEvent(totals) ==
    /\ Delivering
    /\ updateEntries(MapStatus(uploadEntries, "uploading", "processing"))
    /\ phase' = "processing"
    /\ processingError' = NULL
    /\ processingState' = Some([stages |-> createStageStateFromTotals(totals),
                                completed |-> FALSE, error |-> NULL, latestLog |-> None])
    /\ processingLogs' = <<>>
    /\ logHistory' = <<>>
    /\ lastOp' = OpStart(totals)
    /\ UNCHANGED <<files, totalSize, selectedTags, unmatchedMovFiles, hasMovFile,
                   uploadError, processingLogSequence>>
    /\ UNCHANGED sessionVars

\* Date.parse of the payload's timestamp, Date.now() when it does not parse
LogTimestamp(ts) == IF ts = "invalid" THEN "Date.now" ELSE ts

\* mutant: the buffer keeps its first entries and drops the newest
AppendLogKeepingOldest(logs, logEntry) ==
    SubSeq(Append(logs, logEntry), 1, Min(Len(logs) + 1, MAX_PROCESSING_LOGS))

AppendLog(logs, logEntry) == SliceLast(Append(logs, logEntry), MAX_PROCESSING_LOGS)

LogEvent(payload) ==
    /\ Delivering
    /\ LET logEntry == [id |-> processingLogSequence, message |-> payload.message,
                        level |-> payload.level,
                        timestamp |-> LogTimestamp(payload.timestamp)]
       IN  /\ processingState' =
                  IF processingState # None
                  THEN Some([processingState[1] EXCEPT !.latestLog =
                                Some([message |-> logEntry.message, level |-> logEntry.level,
                                      timestamp |-> logEntry.timestamp])])
                  ELSE processingState
           /\ processingLogs' = AppendLog(processingLogs, logEntry)
           /\ logHistory' = Append(logHistory, logEntry)
    /\ processingLogSequence' = processingLogSequence + 1
    /\ lastOp' = Op("log")
    /\ UNCHANGED <<files, totalSize, uploadedBytes, selectedTags, unmatchedMovFiles,
                   hasMovFile, phase, uploadEntries, uploadError, processingError>>
    /\ UNCHANGED sessionVars

\* prevStage?.total ?? 0 and prevStage?.processed ?? 0
PrevTotal(prev, stage) == IF stage \in DOMAIN prev.stages THEN prev.stages[stage].total ELSE 0
PrevProcessed(prev, stage) ==
    IF stage \in DOMAIN prev.stages THEN prev.stages[stage].processed ELSE 0

\* { ...prev.stages, [stage]: value }
WithStage(stages, stage, value) ==
    [s \in DOMAIN stages \cup {stage} |-> IF s = stage THEN value ELSE stages[s]]

\* mutant: processed is stored as normalized, not clamped to the total
StageUpdateUnclamped(prev, stage, status, processed, total) ==
    LET normalizedTotal == normalizeStageCount(total, PrevTotal(prev, stage))
        normalizedProcessed == normalizeStageCount(processed, PrevProcessed(prev, stage))
    IN  [prev EXCEPT !.stages = WithStage(prev.stages, stage,
            [status |-> IF status = "complete" \/ normalizedTotal = 0
                        THEN "completed" ELSE "running",
             processed |-> normalizedProcessed,
             total |-> normalizedTotal])]

StageUpdate(prev, stage, status, processed, total) ==
    LET normalizedTotal == normalizeStageCount(total, PrevTotal(prev, stage))
        normalizedProcessed == normalizeStageCount(processed, PrevProcessed(prev, stage))
    IN  [prev EXCEPT !.stages = WithStage(prev.stages, stage,
            [status |-> IF status = "complete" \/ normalizedTotal = 0
                        THEN "completed" ELSE "running",
             processed |-> Min(normalizedProcessed, normalizedTotal),
             total |-> normalizedTotal])]

\* mutant: the counters are normalized against 0, not against the stage's last values
ActionUpdateFromZero(prev, stage, index, total) ==
    LET normalizedTotal == normalizeStageCount(total, 0)
        normalizedProcessed == normalizeStageCount(index, 0)
    IN  [prev EXCEPT !.stages = WithStage(prev.stages, stage,
            [status |-> IF normalizedTotal = 0 THEN "completed" ELSE "running",
             processed |-> Min(normalizedProcessed, normalizedTotal),
             total |-> normalizedTotal])]

ActionUpdate(prev, stage, index, total) ==
    LET normalizedTotal == normalizeStageCount(total, PrevTotal(prev, stage))
        normalizedProcessed == normalizeStageCount(index, PrevProcessed(prev, stage))
    IN  [prev EXCEPT !.stages = WithStage(prev.stages, stage,
            [status |-> IF normalizedTotal = 0 THEN "completed" ELSE "running",
             processed |-> Min(normalizedProcessed, normalizedTotal),
             total |-> normalizedTotal])]

StageEvent(stage, status, processed, total) ==
    /\ Delivering
    /\ processingState' =
           IF processingState = None THEN processingState
           ELSE Some(StageUpdate(processingState[1], stage, status, processed, total))
    /\ lastOp' = OpOn("stage", stage, IsValidCount(processed), IsValidCount(total))
    /\ UNCHANGED <<files, totalSize, uploadedBytes, selectedTags, unmatchedMovFiles,
                   hasMovFile, phase, uploadEntries, uploadError, processingError,
                   processingLogs, processingLogSequence, logHistory>>
    /\ UNCHANGED sessionVars

ActionEvent(stage, index, total) ==
    /\ Delivering
    /\ processingState' =
           IF processingState = None THEN processingState
           ELSE Some(ActionUpdate(processingState[1], stage, index, total))
    /\ lastOp' = OpOn("action", stage, IsValidCount(index), IsValidCount(total))
    /\ UNCHANGED <<files, totalSize, uploadedBytes, selectedTags, unmatchedMovFiles,
                   hasMovFile, phase, uploadEntries, uploadError, processingError,
                   processingLogs, processingLogSequence, logHistory>>
    /\ UNCHANGED sessionVars

ErrorEvent(message) ==
    /\ Delivering
    /\ phase' = "error"
    /\ processingError' = message
    /\ IF processingState = None
       THEN UNCHANGED <<processingState, uploadEntries, uploadedBytes>>
       ELSE /\ updateEntries(MapStatus(uploadEntries, "processing", "error"))
            /\ processingState' = Some([processingState[1] EXCEPT !.error = message])
    /\ lastOp' = Op("error")
    /\ UNCHANGED <<files, totalSize, selectedTags, unmatchedMovFiles, hasMovFile,
                   uploadError, processingLogs, processingLogSequence, logHistory>>
    /\ UNCHANGED sessionVars

CompleteEntries(entries) ==
    [i \in 1..Len(entries) |->
        [entries[i] EXCEPT
            !.status = IF @ = "processing" THEN "done" ELSE @,
            !.progress = 1,
            !.uploadedBytes = entries[i].size]]

\* mutant: the event is applied whether or not processingState exists
CompleteEventUnguarded ==
    /\ Delivering
    /\ updateEntries(CompleteEntries(uploadEntries))
    /\ phase' = "completed"
    /\ processingState' = IF processingState = None THEN processingState
                          ELSE Some([processingState[1] EXCEPT !.completed = TRUE])
    /\ lastOp' = Op("complete")
    /\ UNCHANGED <<files, totalSize, selectedTags, unmatchedMovFiles, hasMovFile,
                   uploadError, processingError, processingLogs, processingLogSequence,
                   logHistory>>
    /\ UNCHANGED sessionVars

CompleteEvent ==
    /\ Delivering
    /\ IF processingState = None
       THEN UNCHANGED <<phase, processingState, uploadEntries, uploadedBytes>>
       ELSE /\ updateEntries(CompleteEntries(uploadEntries))
            /\ phase' = "completed"
            /\ processingState' = Some([processingState[1] EXCEPT !.completed = TRUE])
    /\ lastOp' = Op("complete")
    /\ UNCHANGED <<files, totalSize, selectedTags, unmatchedMovFiles, hasMovFile,
                   uploadError, processingError, processingLogs, processingLogSequence,
                   logHistory>>
    /\ UNCHANGED sessionVars

\* --------------------------------------------------- handleUploadProgress
\* mutant: every named entry is put to uploading, whatever its status
ProgressEntriesDemoting(entries, snapshot) ==
    [i \in 1..Len(entries) |->
        IF entries[i].index \in DOMAIN snapshot
        THEN [entries[i] EXCEPT
                !.status = "uploading",
                !.progress = snapshot[entries[i].index].progress,
                !.uploadedBytes = snapshot[entries[i].index].uploadedBytes]
        ELSE entries[i]]

\* snapshot: a function from the file indexes it names to their progress
ProgressEntries(entries, snapshot) ==
    [i \in 1..Len(entries) |->
        IF entries[i].index \in DOMAIN snapshot
        THEN [entries[i] EXCEPT
                !.status = IF @ = "pending" THEN "uploading" ELSE @,
                !.progress = snapshot[entries[i].index].progress,
                !.uploadedBytes = snapshot[entries[i].index].uploadedBytes]
        ELSE entries[i]]

handleUploadProgress(snapshot) ==
    /\ Delivering
    /\ updateEntries(ProgressEntries(uploadEntries, snapshot))
    /\ lastOp' = Op("progress")
    /\ UNCHANGED <<files, totalSize, selectedTags, unmatchedMovFiles, hasMovFile, phase,
                   uploadError, processingError, processingState, processingLogs,
                   processingLogSequence, logHistory>>
    /\ UNCHANGED sessionVars

\* ------------------------------------------------------- store operations
\* mutant: the entry is cut out of the old entries, which keep their indexes
removeEntryPatching(index) ==
    /\ Open
    /\ LET nextFiles == RemoveAt(files, index + 1)
       IN  IF phase # "review" \/ Len(nextFiles) = Len(files)
           THEN UNCHANGED <<files, totalSize, unmatchedMovFiles, hasMovFile,
                            uploadEntries, uploadedBytes>>
           ELSE /\ files' = nextFiles
                /\ totalSize' = calculateTotalSize(nextFiles)
                /\ unmatchedMovFiles' = collectUnmatchedMovFiles(nextFiles).unmatched
                /\ hasMovFile' = collectUnmatchedMovFiles(nextFiles).hasMov
                /\ updateEntries(RemoveAt(uploadEntries, index + 1))
    /\ lastOp' = OpRemove(index)
    /\ UNCHANGED <<selectedTags, phase, uploadError, processingError, processingState,
                   processingLogs, processingLogSequence, logHistory>>
    /\ UNCHANGED sessionVars

removeEntry(index) ==
    /\ Open
    /\ LET nextFiles == RemoveAt(files, index + 1)
       IN  IF phase # "review" \/ Len(nextFiles) = Len(files)
           THEN UNCHANGED <<files, totalSize, unmatchedMovFiles, hasMovFile,
                            uploadEntries, uploadedBytes>>
           ELSE /\ files' = nextFiles
                /\ totalSize' = calculateTotalSize(nextFiles)
                /\ unmatchedMovFiles' = collectUnmatchedMovFiles(nextFiles).unmatched
                /\ hasMovFile' = collectUnmatchedMovFiles(nextFiles).hasMov
                /\ uploadEntries' = createFileEntries(nextFiles)
                /\ uploadedBytes' = calculateUploadedBytes(createFileEntries(nextFiles))
    /\ lastOp' = OpRemove(index)
    /\ UNCHANGED <<selectedTags, phase, uploadError, processingError, processingState,
                   processingLogs, processingLogSequence, logHistory>>
    /\ UNCHANGED sessionVars

\* mutant: the phase is not looked at
BeginBlockedIgnoringPhase ==
    \/ Len(unmatchedMovFiles) > 0
    \/ Len(files) = 0

BeginBlocked ==
    \/ Len(unmatchedMovFiles) > 0
    \/ phase = "uploading"
    \/ phase = "processing"
    \/ Len(files) = 0

\* beginUpload up to the await of the transport call
beginUpload ==
    /\ Open
    /\ IF BeginBlocked
       THEN UNCHANGED <<uploadError, processingError, processingState, phase,
                        processingLogs, uploadEntries, uploadedBytes,
                        uploadAbortController, attempts, logHistory>>
       ELSE /\ uploadError' = NULL
            /\ processingError' = NULL
            /\ processingState' = None
            /\ phase' = "uploading"
            /\ processingLogs' = <<>>
            /\ logHistory' = <<>>
            /\ updateEntries([i \in 1..Len(uploadEntries) |->
                                [uploadEntries[i] EXCEPT !.status = "uploading"]])
            /\ attempts' = Append(attempts, "inflight")
            /\ uploadAbortController' = Len(attempts) + 1
    /\ lastOp' = Op("beginUpload")
    /\ UNCHANGED <<files, totalSize, selectedTags, unmatchedMovFiles, hasMovFile,
                   processingLogSequence, onCloseCalls, unmounted>>

\* the rest of beginUpload: the transport call `a` settles; finally drops the
\* controller reference
Settle(a) ==
    /\ attempts' = [attempts EXCEPT ![a] = "settled"]
    /\ uploadAbortController' = 0

TransportResolves(a) ==
    /\ InFlight(a)
    /\ Settle(a)
    /\ lastOp' = Op("resolve")
    /\ UNCHANGED storeVars
    /\ UNCHANGED <<processingLogSequence, onCloseCalls, unmounted, logHistory>>

\* mutant: a failure marks every entry as error
TransportRejectsMarkingAll(a, error) ==
    /\ InFlight(a)
    /\ error.name = "AbortError" => attempts[a] = "aborted"
    /\ IF error.name = "AbortError"
       THEN /\ phase' = "review"
            /\ updateEntries(createFileEntries(files))
            /\ UNCHANGED uploadError
       ELSE /\ uploadError' = getErrorMessage(error, UPLOAD_FAILED_FALLBACK)
            /\ phase' = "error"
            /\ updateEntries([i \in 1..Len(uploadEntries) |->
                                [uploadEntries[i] EXCEPT !.status = "error"]])
    /\ Settle(a)
    /\ lastOp' = Op(IF error.name = "AbortError" THEN "rejectAbort" ELSE "rejectError")
    /\ UNCHANGED <<files, totalSize, selectedTags, unmatchedMovFiles, hasMovFile,
                   processingError, processingState, processingLogs,
                   processingLogSequence, onCloseCalls, unmounted, logHistory>>

TransportRejects(a, error) ==
    /\ InFlight(a)
    /\ error.name = "AbortError" => attempts[a] = "aborted"
    /\ IF error.name = "AbortError"
       THEN /\ phase' = "review"
            /\ updateEntries(createFileEntries(files))
            /\ UNCHANGED uploadError
       ELSE /\ uploadError' = getErrorMessage(error, UPLOAD_FAILED_FALLBACK)
            /\ phase' = "error"
            /\ updateEntries(MapStatus(uploadEntries, "uploading", "error"))
    /\ Settle(a)
    /\ lastOp' = Op(IF error.name = "AbortError" THEN "rejectAbort" ELSE "rejectError")
    /\ UNCHANGED <<files, totalSize, selectedTags, unmatchedMovFiles, hasMovFile,
                   processingError, processingState, processingLogs,
                   processingLogSequence, onCloseCalls, unmounted, logHistory>>

\* mutant: the phase reverts but the entries keep what they had
AbortUploadingKeeping ==
    /\ AbortHeld
    /\ phase' = "review"
    /\ updateEntries(uploadEntries)
    /\ UNCHANGED processingError

\* abortCurrent, the branch of phase = uploading
AbortUploading ==
    /\ AbortHeld
    /\ phase' = "review"
    /\ updateEntries(createFileEntries(files))
    /\ UNCHANGED processingError

\* mutant: every entry is marked error, the finished ones too
AbortProcessingAll ==
    /\ AbortHeld
    /\ processingError' = PROCESSING_TERMINATED
    /\ phase' = "error"
    /\ updateEntries([i \in 1..Len(uploadEntries) |->
                        [uploadEntries[i] EXCEPT !.status = "error"]])

\* abortCurrent, the branch of phase = processing
AbortProcessing ==
    /\ AbortHeld
    /\ processingError' = PROCESSING_TERMINATED
    /\ phase' = "error"
    /\ updateEntries(MapStatus(uploadEntries, "processing", "error"))

abortCurrent ==
    /\ Open
    /\ IF phase = "uploading" THEN AbortUploading
       ELSE IF phase = "processing" THEN AbortProcessing
       ELSE UNCHANGED <<uploadAbortController, attempts, phase, processingError,
                        uploadEntries, uploadedBytes>>
    /\ lastOp' = Op("abortCurrent")
    /\ UNCHANGED <<files, totalSize, selectedTags, unmatchedMovFiles, hasMovFile,
                   uploadError, processingState, processingLogs, processingLogSequence,
                   onCloseCalls, unmounted, logHistory>>

\* mutant: the phase and the entries are reset, the messages are kept
resetKeepingErrors ==
    /\ Open
    /\ AbortHeld
    /\ phase' = "review"
    /\ processingState' = None
    /\ processingLogs' = <<>>
    /\ logHistory' = <<>>
    /\ updateEntries(createFileEntries(files))
    /\ lastOp' = Op("reset")
    /\ UNCHANGED <<files, totalSize, selectedTags, unmatchedMovFiles, hasMovFile,
                   uploadError, processingError, processingLogSequence, onCloseCalls,
                   unmounted>>

reset ==
    /\ Open
    /\ AbortHeld
    /\ phase' = "review"
    /\ uploadError' = NULL
    /\ processingError' = NULL
    /\ processingState' = None
    /\ processingLogs' = <<>>
    /\ logHistory' = <<>>
    /\ updateEntries(createFileEntries(files))
    /\ lastOp' = Op("reset")
    /\ UNCHANGED <<files, totalSize, selectedTags, unmatchedMovFiles, hasMovFile,
                   processingLogSequence, onCloseCalls, unmounted>>

cleanup == AbortHeld

closeModal ==
    /\ Open
    /\ cleanup
    /\ onCloseCalls' = onCloseCalls + 1
    /\ lastOp' = Op("closeModal")
    /\ UNCHANGED storeVars
    /\ UNCHANGED <<processingLogSequence, unmounted, logHistory>>

setSelectedTags(tags) ==
    /\ Open
    /\ selectedTags' = tags
    /\ lastOp' = Op("setSelectedTags")
    /\ UNCHANGED <<files, totalSize, uploadedBytes, unmatchedMovFiles, hasMovFile, phase,
                   uploadEntries, uploadError, processingError, processingState,
                   processingLogs, processingLogSequence, logHistory>>
    /\ UNCHANGED sessionVars

\* the effect cleanup of PhotoUploadStoreProvider
Unmount ==
    /\ ~unmounted
    /\ cleanup
    /\ unmounted' = TRUE
    /\ lastOp' = Op("unmount")
    /\ UNCHANGED storeVars
    /\ UNCHANGED <<processingLogSequence, onCloseCalls, logHistory>>

\* ------------------------------------------------------------ environment
\* Inputs of the callbacks and of the settlement.
SnapshotDomains == {{0}, {1}, {0, 1}, {1, 2}}
Snapshots == UNION {[d -> SnapshotValues] : d \in SnapshotDomains}
StartTotals == [{"metadata"} -> Counts]
LogPayloads == [message : {"scanning"}, level : {"info"}, timestamp : {"invalid"}]
Rejections == {ABORT_ERROR, NETWORK_ERROR, EMPTY_ERROR}

SettleStep ==
    \/ \E a \in 1..Len(attempts) : TransportResolves(a)
    \/ \E a \in 1..Len(attempts), error \in Rejections : TransportRejects(a, error)

\* The session lifecycle: every operation, callback and settlement; one file to
\* upload once its unmatched companion is removed, small callback payloads.
UserStep ==
    \/ \E index \in EntryIndexes : removeEntry(index)
    \/ Len(attempts) < MaxAttempts /\ beginUpload
    \/ abortCurrent
    \/ reset
    \/ closeModal
    \/ \E tags \in TagLists : setSelectedTags(tags)
    \/ Unmount

Next ==
    \/ UserStep
    \/ SettleStep
    \/ handleUploadProgress([i \in {0} |-> [progress |-> 0, uploadedBytes |-> 1]])
    \/ StartEvent([s \in {"metadata"} |-> 1])
    \/ \E payload \in LogPayloads : processingLogSequence < MaxLogSeq /\ LogEvent(payload)
    \/ StageEvent("metadata", "running", BAD_STRING, NOT_A_NUMBER)
    \/ ActionEvent("metadata", Num(-1), Num(1))
    \/ ErrorEvent(SERVER_ERROR)
    \/ CompleteEvent

Init == InitWith(<<MOV_C, IMG_B>>)

Spec == Init /\ [][Next]_vars

\* The entries of a two-file selection under progress snapshots, the events
\* that move entries, the operations that restart them and the settlements.
InitEntries == \E fs \in InitialFileLists : InitWith(fs)

NextEntries ==
    \/ \E index \in EntryIndexes : removeEntry(index)
    \/ Len(attempts) < MaxEntryAttempts /\ beginUpload
    \/ abortCurrent
    \/ reset
    \/ SettleStep
    \/ \E snapshot \in Snapshots : handleUploadProgress(snapshot)
    \/ \E totals \in StartTotals : StartEvent(totals)
    \/ ErrorEvent(SERVER_ERROR)
    \/ CompleteEvent

SpecEntries == InitEntries /\ [][NextEntries]_vars

\* One upload whose processing runs follow one another: the stage table under
\* every reported counter, well-formed or not.
InitStages == InitWith(<<IMG_A>>)

NextStages ==
    \/ attempts = <<>> /\ beginUpload
    \/ \E totals \in StartTotals : StartEvent(totals)
    \/ \E stage \in Stages, status \in StageStatuses, processed \in Reported,
          total \in Reported : StageEvent(stage, status, processed, total)
    \/ \E stage \in Stages, index \in Reported, total \in Reported :
          ActionEvent(stage, index, total)
    \/ ErrorEvent(SERVER_ERROR)
    \/ CompleteEvent

SpecStages == InitStages /\ [][NextStages]_vars

\* One upload whose log buffer is filled beyond its capacity.
InitLogs == InitWith(<<IMG_A>>)

NextLogs ==
    \/ attempts = <<>> /\ beginUpload
    \/ reset
    \/ StartEvent([s \in {"metadata"} |-> 1])
    \/ processingLogSequence < MAX_PROCESSING_LOGS + LogOverrun
          /\ LogEvent([message |-> "scanning", level |-> "info", timestamp |-> "2024-01-01"])

SpecLogs == InitLogs /\ [][NextLogs]_vars

\* One upload of two files under every kind of server event and progress
\* snapshots, before and after the start event, with and without an abort.
InitEvents == InitWith(<<IMG_A, IMG_B>>)

NextEvents ==
    \/ attempts = <<>> /\ beginUpload
    \/ abortCurrent
    \/ \E snapshot \in [{0} -> SnapshotValues] : handleUploadProgress(snapshot)
    \/ \E totals \in StartTotals : StartEvent(totals)
    \/ \E payload \in LogPayloads : processingLogSequence < MaxLogSeq /\ LogEvent(payload)
    \/ \E status \in StageStatuses : StageEvent("metadata", status, Num(1), Num(MaxCount))
    \/ ActionEvent("thumbnail", Num(MaxCount), NOT_A_NUMBER)
    \/ ErrorEvent(SERVER_ERROR)
    \/ CompleteEvent

SpecEvents == InitEvents /\ [][NextEvents]_vars

\* Repeated beginUpload calls on every selection: with an unmatched companion,
\* with no file left, during a running call and after a failed or finished one.
InitBegin == \E fs \in InitialFileLists : InitWith(fs)

NextBegin ==
    \/ \E index \in EntryIndexes : removeEntry(index)
    \/ Len(attempts) < MaxAttempts /\ beginUpload
    \/ StartEvent([s \in {"metadata"} |-> 1])
    \/ \E payload \in LogPayloads : processingLogSequence < MaxLogSeq /\ LogEvent(payload)
    \/ ErrorEvent(SERVER_ERROR)
    \/ CompleteEvent
    \/ \E a \in 1..Len(attempts) : TransportRejects(a, NETWORK_ERROR)

SpecBegin == InitBegin /\ [][NextBegin]_vars

\* reset() called in every phase of one upload of two files, with tags chosen,
\* logs delivered, and a failed, finished or still running transport call.
InitReset == InitWith(<<IMG_A, IMG_B>>)

NextReset ==
    \/ Len(attempts) < MaxEntryAttempts /\ beginUpload
    \/ reset
    \/ \E tags \in TagLists : setSelectedTags(tags)
    \/ \E snapshot \in [{0} -> SnapshotValues] : handleUploadProgress(snapshot)
    \/ StartEvent([s \in {"metadata"} |-> 1])
    \/ \E payload \in LogPayloads : processingLogSequence < MaxLogSeq /\ LogEvent(payload)
    \/ ErrorEvent(SERVER_ERROR)
    \/ CompleteEvent
    \/ \E a \in 1..Len(attempts) : TransportRejects(a, NETWORK_ERROR)

SpecReset == InitReset /\ [][NextReset]_vars

\* One processing run whose stage has work to do from the start: action events
\* and stage events on it, in any order, until the run fails or completes.
InitRun == InitWith(<<IMG_A>>)

NextRun ==
    \/ attempts = <<>> /\ beginUpload
    \/ processingState = None /\ StartEvent([s \in {"metadata"} |-> MaxCount])
    \/ \E index \in Reported, total \in Reported : ActionEvent("metadata", index, total)
    \/ \E status \in StageStatuses, processed \in Reported, total \in Reported :
          StageEvent("metadata", status, processed, total)
    \/ ErrorEvent(SERVER_ERROR)
    \/ CompleteEvent

SpecRun == InitRun /\ [][NextRun]_vars

\* ------------------------------------------------------------------ claims
Closed == onCloseCalls > 0 \/ unmounted

\* C1: phase changes only along the allowed edges; here the edge the claim names
\* last: from completed or error the phase returns to review only by reset().
C1_TerminalLeavesOnlyByReset ==
    [][(phase \in {"completed", "error"} /\ phase' = "review") => lastOp'.op = "reset"]_vars

\* C4: once closeModal or the teardown cleanup has run, every transport call
\* started by the session has had its token cancelled or has settled.
C4_NothingInFlightAfterClose ==
    Closed => \A a \in 1..Len(attempts) : attempts[a] # "inflight"

\* C7: in phase completed both uploadError and processingError are null.
C7_NoErrorWhenCompleted ==
    phase = "completed" => (uploadError = NULL /\ processingError = NULL)

StatusAt(entries, i) == entries[i].status

\* C2: abortCurrent in phase processing gives phase error with the fixed message;
\* every processing entry becomes error and every done entry stays done.
C2_AbortWhileProcessing ==
    [][(lastOp'.op = "abortCurrent" /\ phase = "processing") =>
         /\ phase' = "error"
         /\ processingError' = PROCESSING_TERMINATED
         /\ Len(uploadEntries') = Len(uploadEntries)
         /\ \A i \in 1..Len(uploadEntries) :
               /\ StatusAt(uploadEntries, i) = "processing" => StatusAt(uploadEntries', i) = "error"
               /\ StatusAt(uploadEntries, i) = "done" => StatusAt(uploadEntries', i) = "done"]_vars

C2_Witness ==
    /\ lastOp.op = "abortCurrent"
    /\ phase = "error"
    /\ processingError = PROCESSING_TERMINATED
    /\ \E i, j \in 1..Len(uploadEntries) :
          StatusAt(uploadEntries, i) = "error" /\ StatusAt(uploadEntries, j) = "done"

\* C3: abortCurrent in phase uploading gives phase review with one fresh entry per
\* current file (pending, progress 0, no bytes); in review, completed or error it
\* changes nothing.
C3_AbortWhileUploading ==
    [][lastOp'.op = "abortCurrent" =>
         /\ phase = "uploading" =>
               /\ phase' = "review"
               /\ Len(uploadEntries') = Len(files)
               /\ \A i \in 1..Len(uploadEntries') :
                     /\ uploadEntries'[i].index = i - 1
                     /\ uploadEntries'[i].size = files[i].size
                     /\ uploadEntries'[i].status = "pending"
                     /\ uploadEntries'[i].progress = 0
                     /\ uploadEntries'[i].uploadedBytes = 0
         /\ phase \in {"review", "completed", "error"} =>
               UNCHANGED <<storeVars, uploadAbortController, attempts>>]_vars

C3_Witness ==
    /\ lastOp.op = "abortCurrent"
    /\ phase = "review"
    /\ uploadAbortController = 0
    /\ Len(uploadEntries) = 2
    /\ \E a \in 1..Len(attempts) : attempts[a] = "aborted"

RECURSIVE SumBytes(_, _)
SumBytes(entries, n) == IF n = 0 THEN 0 ELSE entries[n].uploadedBytes + SumBytes(entries, n - 1)

\* C5: the aggregate uploadedBytes is the sum of the entries' uploadedBytes.
C5_UploadedBytesIsSum == uploadedBytes = SumBytes(uploadEntries, Len(uploadEntries))

C5_Witness ==
    /\ lastOp.op = "progress"
    /\ Len(uploadEntries) = 2
    /\ uploadEntries[1].uploadedBytes = 1
    /\ uploadEntries[2].uploadedBytes = 2
    /\ uploadedBytes = 3

Rank(status) ==
    CASE status = "pending" -> 0
      [] status = "uploading" -> 1
      [] status = "processing" -> 2
      [] status \in {"done", "error"} -> 3

Forward(from, to) == from = to \/ (from \notin {"done", "error"} /\ Rank(to) > Rank(from))

\* C6 as stated: no step moves an entry's status backwards, and done and error are
\* never left.
C6_StatusOnlyForward ==
    [][files' = files =>
         \A i \in 1..Len(uploadEntries) :
            Forward(StatusAt(uploadEntries, i), StatusAt(uploadEntries', i))]_vars

\* the steps that restart the entries: beginUpload puts every entry to uploading;
\* abortCurrent during uploading, reset, removeEntry and the abort settlement
\* rederive them as pending
Restarts(op, before) ==
    \/ op \in {"beginUpload", "reset", "removeEntry", "rejectAbort"}
    \/ op = "abortCurrent" /\ before = "uploading"

\* C6 as amended: every step that is not a restart keeps each entry's status or
\* moves it forward along pending, uploading, processing, {done, error}, and
\* leaves done and error as they are.
C6_ForwardBetweenRestarts ==
    [][~Restarts(lastOp'.op, phase) =>
         /\ Len(uploadEntries') = Len(uploadEntries)
         /\ \A i \in 1..Len(uploadEntries) :
               Forward(StatusAt(uploadEntries, i), StatusAt(uploadEntries', i))]_vars

C6_Witness ==
    /\ lastOp.op = "complete"
    /\ phase = "completed"
    /\ \E i, j \in 1..Len(uploadEntries) :
          StatusAt(uploadEntries, i) = "done" /\ StatusAt(uploadEntries, j) = "error"

\* C8: processingLogs never holds more than 200 entries and is the last
\* min(n, 200) of the n log entries delivered since the last clearing, in order.
C8_LogsAreLatestWindow ==
    LET n == Len(logHistory)
        k == IF n < 200 THEN n ELSE 200
    IN  /\ Len(processingLogs) <= 200
        /\ Len(processingLogs) = k
        /\ \A i \in 1..k : processingLogs[i] = logHistory[n - k + i]

C8_Witness ==
    /\ lastOp.op = "log"
    /\ Len(logHistory) > 200
    /\ Len(processingLogs) = 200
    /\ processingLogs[200].id = processingLogSequence - 1

StageTable(ps) == ps[1].stages

\* C9: after a stage or action event applied while processingState exists, the
\* stage it names has processed <= total, and is completed when its total is 0.
C9_NamedStageNormalized ==
    (lastOp.op \in {"stage", "action"} /\ processingState # None) =>
        LET st == StageTable(processingState)[lastOp.stage]
        IN  /\ st.processed <= st.total
            /\ st.total = 0 => st.status = "completed"

C9_Witness ==
    /\ lastOp.op = "action"
    /\ ~lastOp.okTotal
    /\ processingState # None
    /\ StageTable(processingState)[lastOp.stage].total = 0
    /\ StageTable(processingState)[lastOp.stage].status = "completed"

\* the counter a stage had before an event: 0 for a stage not yet in the table
Earlier(ps, stage, total) ==
    IF stage \in DOMAIN StageTable(ps)
    THEN (IF total THEN StageTable(ps)[stage].total ELSE StageTable(ps)[stage].processed)
    ELSE 0

\* C10: no stage or action event lowers the total or the processed of any stage;
\* a malformed counter keeps its last accepted value; such an event changes
\* neither the phase nor any error field.
C10_CountersNeverRegress ==
    [][(lastOp'.op \in {"stage", "action"} /\ processingState # None) =>
         /\ processingState' # None
         /\ \A s \in DOMAIN StageTable(processingState) :
               /\ s \in DOMAIN StageTable(processingState')
               /\ StageTable(processingState')[s].total >= StageTable(processingState)[s].total
               /\ StageTable(processingState')[s].processed >=
                     StageTable(processingState)[s].processed
         /\ ~lastOp'.okTotal =>
               StageTable(processingState')[lastOp'.stage].total =
                 Earlier(processingState, lastOp'.stage, TRUE)
         /\ ~lastOp'.okProcessed =>
               StageTable(processingState')[lastOp'.stage].processed =
                 Earlier(processingState, lastOp'.stage, FALSE)
         /\ phase' = phase
         /\ uploadError' = uploadError
         /\ processingError' = processingError
         /\ processingState'[1].error = processingState[1].error]_vars

C10_Witness ==
    /\ lastOp.op = "stage"
    /\ ~lastOp.okProcessed
    /\ lastOp.okTotal
    /\ processingState # None
    /\ StageTable(processingState)[lastOp.stage].processed = 2
    /\ StageTable(processingState)[lastOp.stage].status = "running"

\* C11: a complete event applied while processingState exists makes every
\* processing entry done with progress 1 and uploadedBytes = size, leaves every
\* other entry as it was, sets phase completed and processingState.completed; with
\* every entry processing the aggregate uploadedBytes then equals totalSize.
C11_CompleteTouchesOnlyProcessing ==
    [][(lastOp'.op = "complete" /\ processingState # None) =>
         /\ phase' = "completed"
         /\ processingState' # None
         /\ processingState'[1].completed
         /\ Len(uploadEntries') = Len(uploadEntries)
         /\ \A i \in 1..Len(uploadEntries) :
               IF StatusAt(uploadEntries, i) = "processing"
               THEN uploadEntries'[i] = [uploadEntries[i] EXCEPT
                                            !.status = "done", !.progress = 1,
                                            !.uploadedBytes = uploadEntries[i].size]
               ELSE uploadEntries'[i] = uploadEntries[i]
         /\ (\A i \in 1..Len(uploadEntries) : StatusAt(uploadEntries, i) = "processing")
               => uploadedBytes' = totalSize]_vars

InFlightStatuses == {"uploading", "processing"}

\* C12: an error event in any state sets phase error and processingError to its
\* message; with processingState present it also sets processingState.error and
\* turns processing entries into error, done entries staying done; after it no
\* entry is left uploading or processing.
C12_ErrorEventLeavesNothingInFlight ==
    [][lastOp'.op = "error" =>
         /\ phase' = "error"
         /\ processingError' = SERVER_ERROR
         /\ Len(uploadEntries') = Len(uploadEntries)
         /\ processingState # None =>
               /\ processingState' # None
               /\ processingState'[1].error = SERVER_ERROR
               /\ \A i \in 1..Len(uploadEntries) :
                     /\ StatusAt(uploadEntries, i) = "processing" =>
                           StatusAt(uploadEntries', i) = "error"
                     /\ StatusAt(uploadEntries, i) = "done" =>
                           StatusAt(uploadEntries', i) = "done"
         /\ \A i \in 1..Len(uploadEntries') :
               StatusAt(uploadEntries', i) \notin InFlightStatuses]_vars

\* C13: a start event promotes every uploading entry to processing and leaves the
\* other entries as they are, sets phase processing, installs a processingState
\* built from the payload's totals, not completed and without error, and empties
\* processingLogs.
C13_StartInstallsFreshState ==
    [][lastOp'.op = "start" =>
         /\ phase' = "processing"
         /\ Len(uploadEntries') = Len(uploadEntries)
         /\ \A i \in 1..Len(uploadEntries) :
               uploadEntries'[i] =
                  IF StatusAt(uploadEntries, i) = "uploading"
                  THEN [uploadEntries[i] EXCEPT !.status = "processing"]
                  ELSE uploadEntries[i]
         /\ processingState' # None
         /\ processingState'[1].completed = FALSE
         /\ processingState'[1].error = NULL
         /\ processingState'[1].latestLog = None
         /\ processingError' = NULL
         /\ DOMAIN StageTable(processingState') = DOMAIN lastOp'.totals
         /\ \A s \in DOMAIN lastOp'.totals :
               /\ StageTable(processingState')[s].total = lastOp'.totals[s]
               /\ StageTable(processingState')[s].processed = 0
         /\ processingLogs' = <<>>]_vars

\* a start event that followed log events, with one entry promoted and one not
C13_Witness ==
    /\ lastOp.op = "start"
    /\ lastOp.totals["metadata"] = MaxCount
    /\ phase = "processing"
    /\ processingLogs = <<>>
    /\ processingLogSequence > 0
    /\ \E i, j \in 1..Len(uploadEntries) :
          StatusAt(uploadEntries, i) = "processing" /\ StatusAt(uploadEntries, j) = "pending"

\* C14: a stage, action or complete event delivered while processingState is
\* absent changes nothing: phase, uploadEntries, uploadedBytes, processingState,
\* processingLogs and the error fields stay as they are.
C14_EventsBeforeStartDropped ==
    [][(lastOp'.op \in {"stage", "action", "complete"} /\ processingState = None) =>
         UNCHANGED storeVars]_vars

\* a complete event dropped during the upload, after bytes were reported
C14_Witness ==
    /\ lastOp.op = "complete"
    /\ processingState = None
    /\ phase = "uploading"
    /\ uploadedBytes > 0
    /\ \E i \in 1..Len(uploadEntries) : StatusAt(uploadEntries, i) = "uploading"

\* C15: a log event delivered while processingState is absent changes no field
\* of the store; with processingState present it appends its entry to
\* processingLogs and makes it the latestLog.
C15_LogNeedsProcessingState ==
    [][lastOp'.op = "log" =>
         IF processingState = None
         THEN UNCHANGED storeVars
         ELSE /\ processingLogs' # <<>>
              /\ processingLogs'[Len(processingLogs')].id = processingLogSequence
              /\ processingState' # None
              /\ processingState'[1].latestLog # None
              /\ processingState'[1].latestLog[1].message =
                    processingLogs'[Len(processingLogs')].message]_vars

\* C16: a progress snapshot updates progress and uploadedBytes only of the entries
\* it names and promotes pending to uploading; it never demotes a status, leaves
\* entries that are processing, done or error entirely as they were, and touches
\* neither phase nor processingState.
C16_ProgressSparesLaterStatuses ==
    [][lastOp'.op = "progress" =>
         /\ phase' = phase
         /\ processingState' = processingState
         /\ Len(uploadEntries') = Len(uploadEntries)
         /\ \A i \in 1..Len(uploadEntries) :
               /\ \/ StatusAt(uploadEntries', i) = StatusAt(uploadEntries, i)
                  \/ /\ StatusAt(uploadEntries, i) = "pending"
                     /\ StatusAt(uploadEntries', i) = "uploading"
               /\ StatusAt(uploadEntries, i) \in {"processing", "done", "error"} =>
                     uploadEntries'[i] = uploadEntries[i]]_vars

\* C17: beginUpload changes nothing and starts no transport call when an unmatched
\* companion exists, when phase is uploading or processing, or when no file is
\* left; otherwise it clears both errors, processingState and the logs, sets phase
\* uploading and every entry to uploading, and starts exactly one transport call
\* under a fresh token.
C17_BeginUploadGuards ==
    [][lastOp'.op = "beginUpload" =>
         IF \/ unmatchedMovFiles # <<>>
            \/ phase \in {"uploading", "processing"}
            \/ files = <<>>
         THEN UNCHANGED <<storeVars, uploadAbortController, attempts>>
         ELSE /\ uploadError' = NULL
              /\ processingError' = NULL
              /\ processingState' = None
              /\ processingLogs' = <<>>
              /\ phase' = "uploading"
              /\ Len(uploadEntries') = Len(uploadEntries)
              /\ \A i \in 1..Len(uploadEntries') : StatusAt(uploadEntries', i) = "uploading"
              /\ attempts' = Append(attempts, "inflight")
              /\ uploadAbortController' = Len(attempts')
              /\ UNCHANGED <<files, selectedTags>>]_vars

\* a beginUpload call refused during processing: still the one transport call
C17_Witness ==
    /\ lastOp.op = "beginUpload"
    /\ phase = "processing"
    /\ processingLogs # <<>>
    /\ Len(attempts) = 1
    /\ uploadAbortController = 1

\* C18: files and selectedTags change only while phase is review: removeEntry and
\* setSelectedTags invoked in uploading, processing, completed or error leave both
\* as they are.
C18_FilesAndTagsOnlyInReview ==
    [][(lastOp'.op \in {"removeEntry", "setSelectedTags"} /\ phase # "review") =>
         /\ files' = files
         /\ selectedTags' = selectedTags]_vars

\* rederived from the files: one pending entry per file, nothing uploaded
FreshEntries(entries, fs) ==
    /\ Len(entries) = Len(fs)
    /\ \A i \in 1..Len(entries) :
          /\ entries[i].index = i - 1
          /\ entries[i].size = fs[i].size
          /\ entries[i].status = "pending"
          /\ entries[i].progress = 0
          /\ entries[i].uploadedBytes = 0

\* C19: when the transport call rejects with an abort the session is in phase
\* review with freshly rederived entries, and no error message is surfaced:
\* uploadError and processingError are both null.
C19_AbortRejectionIsSilent ==
    [][lastOp'.op = "rejectAbort" =>
         /\ phase' = "review"
         /\ FreshEntries(uploadEntries', files')
         /\ uploadError' = NULL
         /\ processingError' = NULL]_vars

\* C20: when the transport call rejects with anything but an abort, the failure
\* becomes state: phase error, uploadError a non-empty message, every uploading
\* entry error, every other entry as it was; the call is settled.
C20_TransportFailureBecomesState ==
    [][lastOp'.op = "rejectError" =>
         /\ phase' = "error"
         /\ uploadError' \notin {NULL, ""}
         /\ Len(uploadEntries') = Len(uploadEntries)
         /\ \A i \in 1..Len(uploadEntries) :
               uploadEntries'[i] =
                  IF StatusAt(uploadEntries, i) = "uploading"
                  THEN [uploadEntries[i] EXCEPT !.status = "error"]
                  ELSE uploadEntries[i]
         /\ \E a \in 1..Len(attempts) :
               attempts[a] # "settled" /\ attempts'[a] = "settled"]_vars

\* a failure without a message, with one entry uploading and one still pending
C20_Witness ==
    /\ lastOp.op = "rejectError"
    /\ phase = "error"
    /\ uploadError = UPLOAD_FAILED_FALLBACK
    /\ \E i, j \in 1..Len(uploadEntries) :
          StatusAt(uploadEntries, i) = "error" /\ StatusAt(uploadEntries, j) = "pending"

\* C21: reset() in any phase cancels the token the controller holds, if any, and
\* gives phase review with uploadError, processingError and processingState
\* cleared, processingLogs empty and every entry pending with progress 0; files
\* and selectedTags are as before.
C21_ResetRestoresReview ==
    [][lastOp'.op = "reset" =>
         /\ uploadAbortController # 0 => attempts'[uploadAbortController] # "inflight"
         /\ uploadAbortController' = 0
         /\ phase' = "review"
         /\ uploadError' = NULL
         /\ processingError' = NULL
         /\ processingState' = None
         /\ processingLogs' = <<>>
         /\ FreshEntries(uploadEntries', files)
         /\ uploadedBytes' = 0
         /\ files' = files
         /\ selectedTags' = selectedTags]_vars

\* reset() after tags were chosen and logs delivered, cancelling a running call
C21_Witness ==
    /\ lastOp.op = "reset"
    /\ phase = "review"
    /\ selectedTags # <<>>
    /\ processingLogSequence > 0
    /\ processingLogs = <<>>
    /\ \E a \in 1..Len(attempts) : attempts[a] = "aborted"

RECURSIVE SumSizes(_, _)
SumSizes(fs, n) == IF n = 0 THEN 0 ELSE fs[n].size + SumSizes(fs, n - 1)

\* the files without the one at position k (counted from 0)
Without(fs, k) == [j \in 1..(Len(fs) - 1) |-> IF j <= k THEN fs[j] ELSE fs[j + 1]]

\* C22: removeEntry in phase review with an index that is present removes exactly
\* the file at that index and rederives the rest: one pending entry per remaining
\* file, indexes 0..n-1 in order, totalSize the sum of the remaining sizes,
\* uploadedBytes 0; with an index that is not present it changes nothing.
C22_RemoveEntryRederives ==
    [][(lastOp'.op = "removeEntry" /\ phase = "review") =>
         IF lastOp'.index \in 0..(Len(files) - 1)
         THEN /\ files' = Without(files, lastOp'.index)
              /\ FreshEntries(uploadEntries', files')
              /\ \A i \in 1..Len(uploadEntries') : uploadEntries'[i].name = files'[i].name
              /\ totalSize' = SumSizes(files', Len(files'))
              /\ uploadedBytes' = 0
              /\ phase' = "review"
         ELSE UNCHANGED storeVars]_vars

\* the first of two files removed: the remaining file's entry has index 0
C22_Witness ==
    /\ lastOp.op = "removeEntry"
    /\ lastOp.index = 0
    /\ phase = "review"
    /\ files = <<IMG_B>>
    /\ Len(uploadEntries) = 1
    /\ uploadEntries[1].index = 0
    /\ uploadEntries[1].name = IMG_B.name
    /\ totalSize = 2

\* C23: closeModal cancels the in-flight token before the external onClose runs,
\* so that once it has run no transport call is left in flight with a live token
\* and onClose has run once; and on every exit path (closeModal, teardown,
\* abortCurrent, reset) a token that was cancelled is no longer held, so that it
\* is never cancelled again and a repeated cleanup does nothing.
C23_CloseCancelsOnce ==
    [][/\ lastOp'.op = "closeModal" =>
             /\ \A a \in 1..Len(attempts') : attempts'[a] # "inflight"
             /\ uploadAbortController' = 0
             /\ onCloseCalls' = onCloseCalls + 1
       /\ \A a \in 1..Len(attempts') :
             attempts'[a] = "aborted" => uploadAbortController' # a
       /\ (lastOp'.op \in {"closeModal", "unmount"} /\ uploadAbortController = 0) =>
             attempts' = attempts]_vars

\* C24: after abortCurrent during processing has set phase error, the settlement
\* of the aborted call by an abort rejection leaves phase error, processingError
\* set and the entries as they are.
C24_AbortSettlementKeepsError ==
    [][(lastOp'.op = "rejectAbort" /\ phase = "error"
           /\ processingError = PROCESSING_TERMINATED) =>
         /\ phase' = "error"
         /\ processingError' = PROCESSING_TERMINATED
         /\ uploadEntries' = uploadEntries]_vars

\* the newest transport call
Latest == Len(attempts)

\* C25: when an attempt was aborted and beginUpload ran again before the first
\* call settled, the late settlement of the first call leaves the second attempt
\* alone: phase, entries and progress are unchanged by it and the controller
\* still holds the second attempt's token.
C25_LateSettlementSparesNewAttempt ==
    [][\A a \in 1..Len(attempts) :
          (/\ a < Latest
           /\ attempts[a] = "aborted"
           /\ attempts'[a] = "settled"
           /\ attempts[Latest] = "inflight"
           /\ uploadAbortController = Latest) =>
             /\ phase' = phase
             /\ uploadEntries' = uploadEntries
             /\ uploadedBytes' = uploadedBytes
             /\ uploadAbortController' = Latest]_vars

\* C26: whenever phase is uploading or processing, the controller holds the
\* token of a transport call that has not settled.
C26_BusyPhaseHoldsToken ==
    phase \in {"uploading", "processing"} =>
        /\ uploadAbortController # 0
        /\ attempts[uploadAbortController] # "settled"

\* C27: whenever phase is review, every entry is pending with progress 0 and no
\* uploaded bytes, and the aggregate uploadedBytes is 0.
C27_ReviewEntriesAreFresh ==
    phase = "review" =>
        /\ uploadedBytes = 0
        /\ \A i \in 1..Len(uploadEntries) :
              /\ uploadEntries[i].status = "pending"
              /\ uploadEntries[i].progress = 0
              /\ uploadEntries[i].uploadedBytes = 0

\* C28: within one processing run a stage that is completed stays completed: no
\* stage or action event naming it puts it back to running.
C28_CompletedStageStaysCompleted ==
    [][(/\ lastOp'.op \in {"stage", "action"}
        /\ processingState # None
        /\ lastOp'.stage \in DOMAIN StageTable(processingState)
        /\ StageTable(processingState)[lastOp'.stage].status = "completed") =>
         /\ processingState' # None
         /\ StageTable(processingState')[lastOp'.stage].status = "completed"]_vars

====
